---- MODULE Spec2Model ----
(***************************************************************************)
(* kvdi access-control core: the LDAP authentication provider              *)
(* (AuthProvider.Authenticate), the role request types of the API          *)
(* (CreateRoleRequest / UpdateRoleRequest) and the MFA status handler      *)
(* (desktopAPI.GetUserMFA).                                                *)
(*                                                                         *)
(* Strings the code transforms (accountStatus, the LDAP group annotation,  *)
(* group names) are sequences of one-character strings, so that            *)
(* strings.ToLower and strings.Split are computed, not assumed.  Strings   *)
(* the code only compares or copies (user names, DNs, passwords, role      *)
(* names, regex patterns) are TLA+ strings.                                *)
(***************************************************************************)
EXTENDS Integers, Sequences, FiniteSets, TLC

VARIABLES
    \* ---- LDAP provider -------------------------------------------------
    directory,   \* the directory's entries, in the order a search returns them
    roleStore,   \* the VDIRoles of the cluster, as a.cluster.GetRoles returns them
    callsLeft,   \* Authenticate calls still to be issued (bounds the model)
    pc,          \* per call: position in Authenticate
    req,         \* per call: the LoginRequest
    conn,        \* per call: the local variable conn
    roles,       \* per call: the local variable roles
    user,        \* per call: the local variable user (sr.Entries[0])
    exit,        \* per call: the return statement taken
    result,      \* per call: the returned (*AuthResult, error)
    conns,       \* every directory connection ever opened
    \* ---- role requests -------------------------------------------------
    payload,     \* the submitted role request body (name, rules)
    createOut,   \* what CreateRoleRequest's Validate / GetRules returned
    updateOut,   \* what UpdateRoleRequest's Validate / GetRules returned
    \* ---- MFA status ----------------------------------------------------
    mfaStore,    \* username -> MFA state held by the MFA store
    mfaQuery,    \* the path parameter of the last GET /api/users/{user}/mfa
    mfaErr,      \* the error d.mfa.GetUserMFAStatus returned for it
    mfaOut       \* what GetUserMFA wrote to the response

ldapVars == <<directory, roleStore, callsLeft, pc, req, conn, roles, user, exit, result, conns>>
roleVars == <<payload, createOut, updateOut>>
mfaVars  == <<mfaStore, mfaQuery, mfaErr, mfaOut>>
vars     == <<ldapVars, roleVars, mfaVars>>

-----------------------------------------------------------------------------
\* Bounds of the model.

\* Authenticate calls issued in one behaviour of SpecAuth.
MaxCalls == 2
\* Longest LDAP group annotation value drawn in SpecResolve.
MaxAnnLen == 3
\* Most rules in a submitted role request.
MaxRules == 2
\* Most resourcePatterns in a submitted role request, over all its rules.
MaxPatterns == 3

-----------------------------------------------------------------------------
\* Strings as character sequences.

EmptyStr == <<>>

\* strings.ToLower on the letters the model uses.
LowerChar(c) ==
    CASE c = "A" -> "a"
      [] c = "C" -> "c"
      [] c = "T" -> "t"
      [] c = "I" -> "i"
      [] c = "V" -> "v"
      [] c = "E" -> "e"
      [] c = "D" -> "d"
      [] OTHER   -> c

ToLower(s) == [i \in DOMAIN s |-> LowerChar(s[i])]

\* The separator of the LDAP group annotation value.
LDAPGroupSeparator == ";"

\* Index of the first separator in s, or 0.
IndexOf(s, sep) ==
    IF \E i \in DOMAIN s : s[i] = sep
    THEN CHOOSE i \in DOMAIN s : s[i] = sep /\ \A j \in 1..(i - 1) : s[j] # sep
    ELSE 0

\* strings.Split(s, sep) for a one-character separator: always at least one
\* token; adjacent, leading and trailing separators give empty tokens.
RECURSIVE Split(_, _)
Split(s, sep) ==
    LET i == IndexOf(s, sep)
    IN  IF i = 0
        THEN <<s>>
        ELSE <<SubSeq(s, 1, i - 1)>> \o Split(SubSeq(s, i + 1, Len(s)), sep)

-----------------------------------------------------------------------------
\* LDAP provider: data.

Procs == {"p1", "p2"}

NoConn == 0

\* The DN a.bind binds with (the provider's service account).
ServiceDN == "cn=kvdi-svc"

\* The annotation key binding a VDIRole to LDAP groups.
LDAPGroupRoleAnnotation == "kvdi.io/ldap-groups"

Active   == <<"a", "c", "t", "i", "v", "e">>
ActiveUC == <<"A", "c", "t", "i", "v", "e">>
Disabled == <<"d", "i", "s", "a", "b", "l", "e", "d">>

Entry(dn, uid, status, pw, groups) ==
    [dn |-> dn, uid |-> uid, accountStatus |-> status, password |-> pw, memberOf |-> groups]

NoEntry == Entry("", "", EmptyStr, "", <<>>)

\* annotations == nil, and a non-nil map.
NilAnnotations == [isNil |-> TRUE, kv |-> <<>>]
Annotations(kv) == [isNil |-> FALSE, kv |-> kv]

Role(name, ann) == [name |-> name, annotations |-> ann]

Usernames == {"alice", "bob", "carol", "dave", "zed"}
Passwords == {"pw1", "pw2"}
Requests  == [Username : Usernames, Password : Passwords]

\* Errors: the class a caller can test for, the library's result code, and the
\* match count a UserNotFoundError message carries.
Err(class, code, n) == [class |-> class, code |-> code, n |-> n]
NoErr == Err("nil", "", 0)

\* errors.NewUserNotFoundError(fmt.Sprintf("Received %d matches for %s", ...))
NewUserNotFoundError(n) == Err("UserNotFoundError", "", n)
\* fmt.Errorf("User account %s is disabled", ...)
DisabledError == Err("fmt.Errorf", "account disabled", 0)
\* go-ldap's *ldap.Error, by result code
LdapError(code) == Err("ldap.Error", code, 0)
\* the error of the cluster client reading the VDIRoles
RoleStoreError == Err("client", "list roles", 0)

\* (*AuthResult, error)
NilResult(err) == [auth |-> "nil", name |-> "", roles |-> <<>>, err |-> err]
AuthResult(name, rs) == [auth |-> "AuthResult", name |-> name, roles |-> rs, err |-> NoErr]
NoResult == [auth |-> "none", name |-> "", roles |-> <<>>, err |-> NoErr]

-----------------------------------------------------------------------------
\* LDAP provider: the directory connection.

NewConn(p) == [owner |-> p, open |-> TRUE, binds |-> <<>>, usedBy |-> {}]

\* conn.Bind(dn, _) issued by call p on connection c; ok is the directory's answer.
ConnBind(cs, c, p, dn, ok) ==
    [cs EXCEPT ![c].binds = Append(@, [dn |-> dn, ok |-> ok]), ![c].usedBy = @ \cup {p}]

\* conn.Search(_) issued by call p on connection c
ConnSearch(cs, c, p) == [cs EXCEPT ![c].usedBy = @ \cup {p}]

\* conn.Close()
ConnClose(cs, c) == [cs EXCEPT ![c].open = FALSE]

\* The directory's answer to a bind: the entry with that DN holds that password.
\* go-ldap refuses an empty password before sending it.
BindAccepted(dir, dn, pw) ==
    /\ pw # ""
    /\ \E i \in DOMAIN dir : dir[i].dn = dn /\ dir[i].password = pw

\* The directory's answer to the search for fmt.Sprintf(userFilter, username).
RECURSIVE SearchEntries(_, _)
SearchEntries(dir, username) ==
    IF dir = <<>> THEN <<>>
    ELSE (IF Head(dir).uid = username THEN <<Head(dir)>> ELSE <<>>)
         \o SearchEntries(Tail(dir), username)

-----------------------------------------------------------------------------
\* AuthProvider.Authenticate: its pure steps.

\* Variant: only an empty result is refused, so the first of several matches is used.
NotUniqueOnlyEmpty(entries) == Len(entries) = 0

\* len(sr.Entries) != 1
NotUnique(entries) == Len(entries) # 1

\* Variant: the account-status check is missing.
AccountActiveUnchecked(entry) == TRUE

\* strings.ToLower(user.GetAttributeValue("accountStatus")) != "active", negated
AccountActive(entry) == ToLower(entry.accountStatus) = Active

\* Variant: the error of the credential bind is dropped.
BindFailedIgnored(err) == FALSE

\* err != nil after conn.Bind(user.DN, req.Password)
BindFailed(err) == err # NoErr

\* common.StringSliceContains
StringSliceContains(ss, s) == \E i \in DOMAIN ss : ss[i] = s

\* common.AppendStringIfMissing
AppendStringIfMissing(ss, s) == IF StringSliceContains(ss, s) THEN ss ELSE Append(ss, s)

\* Variant: GroupLoop without the skip of empty tokens.
RECURSIVE GroupLoopNoSkip(_, _, _)
GroupLoopNoSkip(boundGroups, j, memberOf) ==
    IF j > Len(boundGroups) THEN FALSE
    ELSE IF \E i \in DOMAIN memberOf : memberOf[i] = boundGroups[j] THEN TRUE
    ELSE GroupLoopNoSkip(boundGroups, j + 1, memberOf)

\* GroupLoop: TRUE when the loop reaches "continue RoleLoop" (a bound group is
\* one of the user's memberOf values), FALSE when it runs off the end.
RECURSIVE GroupLoop(_, _, _)
GroupLoop(boundGroups, j, memberOf) ==
    IF j > Len(boundGroups) THEN FALSE
    ELSE IF boundGroups[j] = EmptyStr THEN GroupLoop(boundGroups, j + 1, memberOf)
    ELSE IF StringSliceContains(memberOf, boundGroups[j]) THEN TRUE
    ELSE GroupLoop(boundGroups, j + 1, memberOf)

\* One iteration of RoleLoop: boundRoles after looking at role.
RoleStep(role, memberOf, boundRoles) ==
    IF /\ ~role.annotations.isNil
       /\ LDAPGroupRoleAnnotation \in DOMAIN role.annotations.kv
       /\ GroupLoop(Split(role.annotations.kv[LDAPGroupRoleAnnotation], LDAPGroupSeparator),
                    1, memberOf)
    THEN AppendStringIfMissing(boundRoles, role.name)
    ELSE boundRoles

\* RoleLoop from role i on.
RECURSIVE RoleLoop(_, _, _, _)
RoleLoop(rs, i, memberOf, boundRoles) ==
    IF i > Len(rs) THEN boundRoles
    ELSE RoleLoop(rs, i + 1, memberOf, RoleStep(rs[i], memberOf, boundRoles))

\* apiutil.FilterUserRolesByNames: the roles whose name is one of names, in the
\* order of rs (a VDIUserRole is kept as its name).
RECURSIVE FilterUserRolesByNames(_, _)
FilterUserRolesByNames(rs, names) ==
    IF rs = <<>> THEN <<>>
    ELSE (IF StringSliceContains(names, Head(rs).name) THEN <<Head(rs).name>> ELSE <<>>)
         \o FilterUserRolesByNames(Tail(rs), names)

\* Lines 120-151: the AuthResult for a verified user.
ResolveUser(username, entry, rs) ==
    AuthResult(username, FilterUserRolesByNames(rs, RoleLoop(rs, 1, entry.memberOf, <<>>)))

-----------------------------------------------------------------------------
\* AuthProvider.Authenticate: its steps, one action per call into the directory
\* or the role store, so that concurrent calls interleave at those calls.

\* Variant: the connection is closed on the success path only.
CloseOnSuccessOnly(cs, c, res) ==
    IF res.auth = "nil" THEN cs ELSE [cs EXCEPT ![c].open = FALSE]

\* defer conn.Close(): what every return after line 81 does to the connection.
DeferClose(cs, c, res) == ConnClose(cs, c)

\* return res, at the return statement named where, with connections cs.
Return(p, where, res, cs) ==
    /\ pc' = [pc EXCEPT ![p] = "done"]
    /\ exit' = [exit EXCEPT ![p] = where]
    /\ result' = [result EXCEPT ![p] = res]
    /\ conns' = DeferClose(cs, conn[p], res)

\* Lines 77-81: a new call; a.connect() opens a connection of its own or fails.
Connect(p) ==
    /\ pc[p] \in {"idle", "done"}
    /\ callsLeft > 0
    /\ callsLeft' = callsLeft - 1
    /\ \E r \in Requests, ok \in BOOLEAN :
        /\ req' = [req EXCEPT ![p] = r]
        /\ roles' = [roles EXCEPT ![p] = <<>>]
        /\ user' = [user EXCEPT ![p] = NoEntry]
        /\ IF ok
           THEN /\ conns' = Append(conns, NewConn(p))
                /\ conn' = [conn EXCEPT ![p] = Len(conns) + 1]
                /\ pc' = [pc EXCEPT ![p] = "connected"]
                /\ exit' = [exit EXCEPT ![p] = "none"]
                /\ result' = [result EXCEPT ![p] = NoResult]
           ELSE /\ conns' = conns
                /\ conn' = [conn EXCEPT ![p] = NoConn]
                /\ pc' = [pc EXCEPT ![p] = "done"]
                /\ exit' = [exit EXCEPT ![p] = "connect"]
                /\ result' = [result EXCEPT ![p] = NilResult(LdapError("Network"))]
    /\ UNCHANGED <<directory, roleStore>>
    /\ UNCHANGED <<roleVars, mfaVars>>

\* Lines 83-85: a.bind(conn), the bind as the service account.
ServiceBind(p) ==
    /\ pc[p] = "connected"
    /\ \E err \in {NoErr, LdapError("Network"), LdapError("InvalidCredentials")} :
        LET cs == ConnBind(conns, conn[p], p, ServiceDN, err = NoErr)
        IN  IF err # NoErr
            THEN Return(p, "servicebind", NilResult(err), cs)
            ELSE /\ pc' = [pc EXCEPT ![p] = "bound"]
                 /\ conns' = cs
                 /\ UNCHANGED <<exit, result>>
    /\ UNCHANGED <<directory, roleStore, callsLeft, req, conn, roles, user>>
    /\ UNCHANGED <<roleVars, mfaVars>>

\* Lines 88-91: a.cluster.GetRoles(a.client).
GetRoles(p) ==
    /\ pc[p] = "bound"
    /\ \E ok \in BOOLEAN :
        IF ok
        THEN /\ roles' = [roles EXCEPT ![p] = roleStore]
             /\ pc' = [pc EXCEPT ![p] = "roles"]
             /\ UNCHANGED <<exit, result, conns>>
        ELSE /\ Return(p, "getroles", NilResult(RoleStoreError), conns)
             /\ UNCHANGED roles
    /\ UNCHANGED <<directory, roleStore, callsLeft, req, conn, user>>
    /\ UNCHANGED <<roleVars, mfaVars>>

\* Lines 93-113: the search, the unique-match check and the account-status check.
Search(p) ==
    /\ pc[p] = "roles"
    /\ \E ok \in BOOLEAN :
        LET cs == ConnSearch(conns, conn[p], p)
            entries == SearchEntries(directory, req[p].Username)
        IN  IF ~ok
            THEN /\ Return(p, "search", NilResult(LdapError("Network")), cs)
                 /\ UNCHANGED user
            ELSE IF NotUnique(entries)
            THEN /\ Return(p, "nomatch", NilResult(NewUserNotFoundError(Len(entries))), cs)
                 /\ UNCHANGED user
            ELSE IF ~AccountActive(entries[1])
            THEN /\ Return(p, "disabled", NilResult(DisabledError), cs)
                 /\ user' = [user EXCEPT ![p] = entries[1]]
            ELSE /\ user' = [user EXCEPT ![p] = entries[1]]
                 /\ pc' = [pc EXCEPT ![p] = "checked"]
                 /\ conns' = cs
                 /\ UNCHANGED <<exit, result>>
    /\ UNCHANGED <<directory, roleStore, callsLeft, req, conn, roles>>
    /\ UNCHANGED <<roleVars, mfaVars>>

\* Lines 115-151: conn.Bind(user.DN, req.Password), then the role bindings.
CredentialBind(p) ==
    /\ pc[p] = "checked"
    /\ \E up \in BOOLEAN :
        LET err == IF ~up THEN LdapError("Network")
                   ELSE IF BindAccepted(directory, user[p].dn, req[p].Password) THEN NoErr
                   ELSE LdapError("InvalidCredentials")
            cs == ConnBind(conns, conn[p], p, user[p].dn, err = NoErr)
        IN  IF BindFailed(err)
            THEN Return(p, "credentialbind", NilResult(err), cs)
            ELSE Return(p, "success", ResolveUser(req[p].Username, user[p], roles[p]), cs)
    /\ UNCHANGED <<directory, roleStore, callsLeft, req, conn, roles, user>>
    /\ UNCHANGED <<roleVars, mfaVars>>

NextAuth ==
    \E p \in Procs :
        \/ Connect(p)
        \/ ServiceBind(p)
        \/ GetRoles(p)
        \/ Search(p)
        \/ CredentialBind(p)

-----------------------------------------------------------------------------
\* Role requests (CreateRoleRequest, UpdateRoleRequest).

Rule(verbs, resources, patterns, namespaces) ==
    [Verbs |-> verbs, Resources |-> resources,
     ResourcePatterns |-> patterns, Namespaces |-> namespaces]

\* A []Rule: nil, or a (possibly empty) list.
NilRules == [isNil |-> TRUE, items |-> <<>>]
Rules(items) == [isNil |-> FALSE, items |-> items]

\* Patterns a request may carry, and what regexp.Compile says of each:
\* ".*" compiles, "[" is a missing closing ], "(" is a missing closing ).
Patterns == {".*", "[", "("}
RegexpCompiles(pattern) == pattern = ".*"

NoError == [class |-> "nil", pattern |-> ""]
\* errors.New("A name is required for the new role")
NameRequiredError == [class |-> "errors.New", pattern |-> ""]
\* fmt.Errorf("%s is an invalid regex: %s", pattern, err.Error())
InvalidRegexError(pattern) == [class |-> "fmt.Errorf", pattern |-> pattern]

\* Variant: only the first pattern of a rule is compiled.
validateFirstPatternOnly(patterns) ==
    IF patterns = <<>> THEN [class |-> "nil", pattern |-> ""]
    ELSE IF Head(patterns) # ".*"
    THEN [class |-> "fmt.Errorf", pattern |-> Head(patterns)]
    ELSE [class |-> "nil", pattern |-> ""]

\* validatePatterns: the error for the first pattern that does not compile.
RECURSIVE validatePatterns(_)
validatePatterns(patterns) ==
    IF patterns = <<>> THEN NoError
    ELSE IF ~RegexpCompiles(Head(patterns)) THEN InvalidRegexError(Head(patterns))
    ELSE validatePatterns(Tail(patterns))

\* for _, rule := range r.Rules { if err := validatePatterns(...); err != nil { return err } }
RECURSIVE ValidateRules(_)
ValidateRules(items) ==
    IF items = <<>> THEN NoError
    ELSE LET err == validatePatterns(Head(items).ResourcePatterns)
         IN  IF err # NoError THEN err ELSE ValidateRules(Tail(items))

\* CreateRoleRequest.Validate
CreateRoleRequest_Validate(r) ==
    IF r.Name = "" THEN NameRequiredError ELSE ValidateRules(r.Rules.items)

\* UpdateRoleRequest.Validate
UpdateRoleRequest_Validate(r) == ValidateRules(r.Rules.items)

\* The rule GetRules substitutes.
DenyAllRule == Rule(<<>>, <<>>, <<>>, <<>>)

\* CreateRoleRequest.GetRules
CreateRoleRequest_GetRules(r) ==
    IF r.Rules.isNil THEN <<DenyAllRule>> ELSE r.Rules.items

\* UpdateRoleRequest.GetRules
UpdateRoleRequest_GetRules(r) ==
    IF r.Rules.isNil THEN <<DenyAllRule>> ELSE r.Rules.items

\* What a handler has got back from a request so far.
NoOut == [validated |-> FALSE, err |-> NoError, gotRules |-> FALSE, rules |-> <<>>]

CreateValidate ==
    /\ ~createOut.validated
    /\ createOut' = [createOut EXCEPT !.validated = TRUE,
                                      !.err = CreateRoleRequest_Validate(payload)]
    /\ UNCHANGED <<payload, updateOut, ldapVars, mfaVars>>

CreateGetRules ==
    /\ ~createOut.gotRules
    /\ createOut' = [createOut EXCEPT !.gotRules = TRUE,
                                      !.rules = CreateRoleRequest_GetRules(payload)]
    /\ UNCHANGED <<payload, updateOut, ldapVars, mfaVars>>

UpdateValidate ==
    /\ ~updateOut.validated
    /\ updateOut' = [updateOut EXCEPT !.validated = TRUE,
                                      !.err = UpdateRoleRequest_Validate(payload)]
    /\ UNCHANGED <<payload, createOut, ldapVars, mfaVars>>

UpdateGetRules ==
    /\ ~updateOut.gotRules
    /\ updateOut' = [updateOut EXCEPT !.gotRules = TRUE,
                                      !.rules = UpdateRoleRequest_GetRules(payload)]
    /\ UNCHANGED <<payload, createOut, ldapVars, mfaVars>>

NextRoles == CreateValidate \/ CreateGetRules \/ UpdateValidate \/ UpdateGetRules

-----------------------------------------------------------------------------
\* MFA status (desktopAPI.GetUserMFA).

MFAUsers == {"alice", "bob", "carol"}
Secrets  == {"S1", "S2"}

\* A user's state in the MFA store; a user never enrolled has none.
NoMFA == [enrolled |-> FALSE, secret |-> "", verified |-> FALSE]
MFAState(secret, verified) == [enrolled |-> TRUE, secret |-> secret, verified |-> verified]

\* The error of a store that cannot be read.
StoreError == Err("secrets", "read failed", 0)

\* d.mfa.GetUserMFAStatus(username): (secret, verified, err).
GetUserMFAStatus(store, username, readable) ==
    IF ~readable THEN [secret |-> "", verified |-> FALSE, err |-> StoreError]
    ELSE IF ~store[username].enrolled
    THEN [secret |-> "", verified |-> FALSE, err |-> NewUserNotFoundError(0)]
    ELSE [secret |-> store[username].secret, verified |-> store[username].verified,
          err |-> NoErr]

\* errors.IsUserNotFoundError
IsUserNotFoundError(err) == err.class = "UserNotFoundError"

\* gotp.NewDefaultTOTP(secret).ProvisioningUri(accountName, issuerName)
ProvisioningUri(secret, accountName, issuerName) ==
    <<"otpauth://totp/", issuerName, ":", accountName,
      "?secret=", secret, "&issuer=", issuerName>>

\* v1.MFAResponse written by apiutil.WriteJSON; unset fields are zero values.
MFAResponse(enabled, verified, uri) ==
    [kind |-> "json", Enabled |-> enabled, Verified |-> verified,
     ProvisioningURI |-> uri, err |-> NoErr]
\* apiutil.ReturnAPIError(err, w)
APIError(err) ==
    [kind |-> "error", Enabled |-> FALSE, Verified |-> FALSE,
     ProvisioningURI |-> <<>>, err |-> err]
NoResponse ==
    [kind |-> "none", Enabled |-> FALSE, Verified |-> FALSE,
     ProvisioningURI |-> <<>>, err |-> NoErr]

\* Variant: every error of the store, user-not-found included, is an API error.
GetUserMFANoNotFoundCase(username, st) ==
    IF st.err # NoErr
    THEN APIError(st.err)
    ELSE MFAResponse(TRUE, st.verified, ProvisioningUri(st.secret, username, "kVDI"))

\* Variant: the not-enrolled response also carries a provisioning URI.
GetUserMFAAlwaysURI(username, st) ==
    IF st.err # NoErr
    THEN IF IsUserNotFoundError(st.err)
         THEN MFAResponse(FALSE, FALSE, ProvisioningUri(st.secret, username, "kVDI"))
         ELSE APIError(st.err)
    ELSE MFAResponse(TRUE, st.verified, ProvisioningUri(st.secret, username, "kVDI"))

\* The body of GetUserMFA: what it writes, given GetUserMFAStatus's return.
GetUserMFAResponse(username, st) ==
    IF st.err # NoErr
    THEN IF IsUserNotFoundError(st.err)
         THEN MFAResponse(FALSE, FALSE, <<>>)
         ELSE APIError(st.err)
    ELSE MFAResponse(TRUE, st.verified, ProvisioningUri(st.secret, username, "kVDI"))

GetUserMFA ==
    /\ \E username \in MFAUsers, readable \in BOOLEAN :
        LET st == GetUserMFAStatus(mfaStore, username, readable)
        IN  /\ mfaQuery' = username
            /\ mfaErr' = st.err
            /\ mfaOut' = GetUserMFAResponse(username, st)
    /\ UNCHANGED <<mfaStore, ldapVars, roleVars>>

NextMFA == GetUserMFA

-----------------------------------------------------------------------------
\* Initial states and specifications.

SeqsUpTo(S, n) == UNION {[1..k -> S] : k \in 0..n}

\* No Authenticate call has been made.
NoCalls ==
    /\ pc = [p \in Procs |-> "idle"]
    /\ req = [p \in Procs |-> [Username |-> "", Password |-> ""]]
    /\ conn = [p \in Procs |-> NoConn]
    /\ roles = [p \in Procs |-> <<>>]
    /\ user = [p \in Procs |-> NoEntry]
    /\ exit = [p \in Procs |-> "none"]
    /\ result = [p \in Procs |-> NoResult]
    /\ conns = <<>>

LdapIdle ==
    /\ directory = <<>>
    /\ roleStore = <<>>
    /\ callsLeft = 0
    /\ NoCalls

RolesIdle ==
    /\ payload = [Name |-> "", Rules |-> NilRules]
    /\ createOut = NoOut
    /\ updateOut = NoOut

MFAIdle ==
    /\ mfaStore = [u \in MFAUsers |-> NoMFA]
    /\ mfaQuery = ""
    /\ mfaErr = NoErr
    /\ mfaOut = NoResponse

\* A directory with a unique active user, an ambiguous user name, a disabled
\* account and an account whose status is written "Active"; "zed" has no entry.
AuthDirectory ==
    << Entry("uid=alice,ou=people", "alice", Active,   "pw1", << <<"b">> >>),
       Entry("uid=bob,ou=people",   "bob",   Active,   "pw1", << <<"a">> >>),
       Entry("uid=bob,ou=staff",    "bob",   Active,   "pw2", << <<"a">> >>),
       Entry("uid=carol,ou=people", "carol", Disabled, "pw1", << <<"a">> >>),
       Entry("uid=dave,ou=people",  "dave",  ActiveUC, "pw2", << <<"a", "b">>, <<"c">> >>) >>

\* Role A is bound to groups a and b, B to group ab; C has no annotations and
\* D has annotations but not the LDAP group one.
AuthRoles ==
    << Role("A", Annotations(LDAPGroupRoleAnnotation :> <<"a", ";", "b">>)),
       Role("B", Annotations(LDAPGroupRoleAnnotation :> <<"a", "b">>)),
       Role("C", NilAnnotations),
       Role("D", Annotations("owner" :> <<"a">>)) >>

InitAuth ==
    /\ directory = AuthDirectory
    /\ roleStore = AuthRoles
    /\ callsLeft = MaxCalls
    /\ NoCalls
    /\ RolesIdle
    /\ MFAIdle

SpecAuth == InitAuth /\ [][NextAuth]_vars

\* Role stores and directories for the binding resolution: two roles, each with
\* no annotations, annotations without the LDAP group key, or any LDAP group
\* annotation value over {a, ;} of up to MaxAnnLen characters; one active user
\* whose memberOf is one of a few group lists.
AnnotationChoices ==
    {NilAnnotations, Annotations(<<>>)}
    \cup {Annotations(LDAPGroupRoleAnnotation :> v) :
            v \in SeqsUpTo({"a", LDAPGroupSeparator}, MaxAnnLen)}

MemberOfChoices ==
    { <<>>, << <<>> >>, << <<"a">> >>, << <<"a", "a">> >>,
      << <<"a", "a">>, <<"a">> >>, << <<>>, <<"a", "a">> >> }

InitResolve ==
    /\ \E m \in MemberOfChoices :
        directory = << Entry("uid=alice,ou=people", "alice", Active, "pw1", m) >>
    /\ \E a1 \in AnnotationChoices, a2 \in AnnotationChoices :
        roleStore = << Role("A", a1), Role("B", a2) >>
    /\ callsLeft = 1
    /\ NoCalls
    /\ RolesIdle
    /\ MFAIdle

SpecResolve == InitResolve /\ [][NextAuth]_vars

\* Role request bodies: up to MaxRules rules carrying up to MaxPatterns
\* resourcePatterns between them, or rules omitted (nil), with or without a name.
RECURSIVE RuleLists(_, _)
RuleLists(n, budget) ==
    {<<>>} \cup
    (IF n = 0 THEN {}
     ELSE UNION { { <<Rule(<<"read">>, <<"templates">>, ps, <<"default">>)>> \o rest :
                      rest \in RuleLists(n - 1, budget - Len(ps)) } :
                  ps \in SeqsUpTo(Patterns, budget) })

Payloads ==
    [Name : {"", "admin"},
     Rules : {NilRules} \cup {Rules(items) : items \in RuleLists(MaxRules, MaxPatterns)}]

InitRoles ==
    /\ payload \in Payloads
    /\ createOut = NoOut
    /\ updateOut = NoOut
    /\ LdapIdle
    /\ MFAIdle

SpecRoles == InitRoles /\ [][NextRoles]_vars

\* MFA stores: every user either never enrolled or enrolled with a secret,
\* verified or not.
MFAStores ==
    [MFAUsers -> {NoMFA} \cup {MFAState(s, v) : s \in Secrets, v \in BOOLEAN}]

InitMFA ==
    /\ mfaStore \in MFAStores
    /\ mfaQuery = ""
    /\ mfaErr = NoErr
    /\ mfaOut = NoResponse
    /\ LdapIdle
    /\ RolesIdle

SpecMFA == InitMFA /\ [][NextMFA]_vars

-----------------------------------------------------------------------------
\* Properties of AuthProvider.Authenticate.

\* The entries the directory holds for the user name of call p.
Matches(p) == SearchEntries(directory, req[p].Username)

\* Call p has got the answer of its search.
SearchReturned(p) ==
    \/ pc[p] = "checked"
    \/ pc[p] = "done" /\ exit[p] \in {"nomatch", "disabled", "credentialbind", "success"}

\* The binds call p made with a DN other than the service account's.
CredentialBinds(p) ==
    IF conn[p] = NoConn THEN {}
    ELSE {i \in DOMAIN conns[conn[p]].binds : conns[conn[p]].binds[i].dn # ServiceDN}

\* accountStatus is "active" in some spelling of upper and lower case.
ActiveAnyCase(status) ==
    LET upper == <<"A", "C", "T", "I", "V", "E">>
        lower == <<"a", "c", "t", "i", "v", "e">>
    IN  /\ Len(status) = 6
        /\ \A i \in 1..6 : status[i] = lower[i] \/ status[i] = upper[i]

\* C1: whenever the search for the user name returns zero or several entries,
\* the call ends with a UserNotFoundError and no AuthResult, and no bind with a
\* user DN is made on its connection, whatever the password.
C1_NonUniqueMatchRejected ==
    \A p \in Procs :
        (SearchReturned(p) /\ Len(Matches(p)) # 1) =>
            /\ pc[p] = "done"
            /\ result[p].auth = "nil"
            /\ result[p].err.class = "UserNotFoundError"
            /\ result[p].err.n = Len(Matches(p))
            /\ CredentialBinds(p) = {}

\* Two entries match, the password is valid for one of them, the call has returned.
C1_Witness ==
    \E p \in Procs :
        /\ pc[p] = "done" /\ exit[p] = "nomatch"
        /\ Len(Matches(p)) = 2
        /\ \E i \in 1..2 : BindAccepted(directory, Matches(p)[i].dn, req[p].Password)

\* C2 as stated: a uniquely matched entry whose accountStatus is not the string
\* "active" ends the call with the account-disabled error, distinct from every
\* error of a failed credential bind, and no credential bind is made.
C2_AsStated ==
    \A p \in Procs :
        (SearchReturned(p) /\ Len(Matches(p)) = 1 /\ Matches(p)[1].accountStatus # Active) =>
            /\ pc[p] = "done"
            /\ result[p].auth = "nil"
            /\ result[p].err = DisabledError
            /\ CredentialBinds(p) = {}
            /\ \A q \in Procs : exit[q] = "credentialbind" => result[q].err # result[p].err

\* C2 amended: the same for a uniquely matched entry whose accountStatus is not
\* "active" in any spelling of upper and lower case.
C2_DisabledBeforeBind ==
    \A p \in Procs :
        (SearchReturned(p) /\ Len(Matches(p)) = 1
            /\ ~ActiveAnyCase(Matches(p)[1].accountStatus)) =>
            /\ pc[p] = "done"
            /\ result[p].auth = "nil"
            /\ result[p].err = DisabledError
            /\ CredentialBinds(p) = {}
            /\ \A q \in Procs : exit[q] = "credentialbind" => result[q].err # result[p].err

\* A disabled account asked for with its valid password, while another call
\* has failed its credential bind.
C2_Witness ==
    \E p \in Procs, q \in Procs :
        /\ pc[p] = "done" /\ exit[p] = "disabled"
        /\ Len(Matches(p)) = 1
        /\ BindAccepted(directory, Matches(p)[1].dn, req[p].Password)
        /\ exit[q] = "credentialbind"

C4_ConnectionsReleased ==
    /\ \A p \in Procs :
        /\ pc[p] \in {"connected", "bound", "roles", "checked"} =>
              /\ conn[p] \in DOMAIN conns
              /\ conns[conn[p]].open
              /\ conns[conn[p]].owner = p
        /\ (pc[p] = "done" /\ exit[p] # "connect") =>
              /\ conn[p] \in DOMAIN conns
              /\ ~conns[conn[p]].open
        /\ (pc[p] = "done" /\ exit[p] = "connect") => conn[p] = NoConn
    /\ \A c \in DOMAIN conns : conns[c].usedBy \subseteq {conns[c].owner}
    /\ \A p \in Procs, q \in Procs :
        (p # q /\ conn[p] # NoConn) => conn[p] # conn[q]
    /\ (\A p \in Procs : pc[p] \in {"idle", "done"}) =>
          \A c \in DOMAIN conns : ~conns[c].open

\* Two calls ran, one returned an error after the search and one succeeded,
\* each on its own connection.
C4_Witness ==
    \E p \in Procs, q \in Procs :
        /\ pc[p] = "done" /\ exit[p] = "disabled"
        /\ pc[q] = "done" /\ exit[q] = "success"
        /\ Len(conns) = 2
        /\ conn[p] # conn[q]

\* C10 as stated: an error returned for a failed connect, service bind or
\* search can be told apart from every error returned for a failed credential
\* bind.
C10_AsStated ==
    \A p \in Procs, q \in Procs :
        ( /\ pc[p] = "done" /\ exit[p] \in {"connect", "servicebind", "search"}
          /\ pc[q] = "done" /\ exit[q] = "credentialbind" )
        => result[p].err # result[q].err

-----------------------------------------------------------------------------
\* Properties of the group-to-role binding.

\* The tokens of an annotation value: its maximal runs free of the separator.
Tokens(v) ==
    { SubSeq(v, ij[1], ij[2]) :
        ij \in { x \in (1..(Len(v) + 1)) \X (0..Len(v)) :
                   /\ x[2] >= x[1] - 1
                   /\ \A k \in x[1]..x[2] : v[k] # LDAPGroupSeparator
                   /\ (x[1] = 1 \/ v[x[1] - 1] = LDAPGroupSeparator)
                   /\ (x[2] = Len(v) \/ v[x[2] + 1] = LDAPGroupSeparator) } }

\* C5: in a successful result, a role of the store is among the principal's
\* roles exactly when it carries the LDAP group annotation and a non-empty
\* token of it is one of the entry's memberOf values; no role name is there
\* twice; the call succeeds also when no role is bound.
C5_RoleBinding ==
    \A p \in Procs :
        (pc[p] = "done" /\ exit[p] = "success") =>
            LET rs == result[p].roles
                groups == {user[p].memberOf[i] : i \in DOMAIN user[p].memberOf}
            IN  /\ result[p].auth = "AuthResult"
                /\ \A i \in DOMAIN roleStore :
                      (\E k \in DOMAIN rs : rs[k] = roleStore[i].name) <=>
                          /\ ~roleStore[i].annotations.isNil
                          /\ LDAPGroupRoleAnnotation \in DOMAIN roleStore[i].annotations.kv
                          /\ \E t \in Tokens(roleStore[i].annotations.kv[LDAPGroupRoleAnnotation]) :
                                t # EmptyStr /\ t \in groups
                /\ \A k \in DOMAIN rs : \E i \in DOMAIN roleStore : rs[k] = roleStore[i].name
                /\ \A k \in DOMAIN rs, l \in DOMAIN rs : rs[k] = rs[l] => k = l

\* The user has an empty group name and group aa; role A is annotated ";a"
\* (an empty token and a) and is not bound, role B is annotated "aa" and is.
C5_Witness ==
    \E p \in Procs :
        /\ pc[p] = "done" /\ exit[p] = "success"
        /\ user[p].memberOf = << <<>>, <<"a", "a">> >>
        /\ roleStore[1].annotations = Annotations(LDAPGroupRoleAnnotation :> <<";", "a">>)
        /\ roleStore[2].annotations = Annotations(LDAPGroupRoleAnnotation :> <<"a", "a">>)
        /\ result[p].roles = <<"B">>

-----------------------------------------------------------------------------
\* Properties of the role requests.

\* The submitted rules, an omitted list read as no rules.
Submitted == payload.Rules.items

\* The places <<rule, pattern>> of the submitted patterns that do not compile.
InvalidPlaces ==
    UNION { { <<i, k>> : k \in { n \in DOMAIN Submitted[i].ResourcePatterns :
                                   ~RegexpCompiles(Submitted[i].ResourcePatterns[n]) } } :
            i \in DOMAIN Submitted }

\* The first of them, in rule order and then pattern order.
FirstInvalidPlace ==
    CHOOSE x \in InvalidPlaces :
        \A y \in InvalidPlaces : x[1] < y[1] \/ (x[1] = y[1] /\ x[2] <= y[2])

\* What validation of the submitted rules has to answer.
ExpectedValidation ==
    IF InvalidPlaces = {} THEN NoError
    ELSE InvalidRegexError(
            Submitted[FirstInvalidPlace[1]].ResourcePatterns[FirstInvalidPlace[2]])

\* C6 as stated: for both request types, GetRules of a request whose rules are
\* nil or an empty list is the single deny-all rule, and a non-empty list is
\* returned as submitted.
C6_AsStated ==
    /\ createOut.gotRules =>
          createOut.rules = IF Submitted = <<>> THEN <<DenyAllRule>> ELSE Submitted
    /\ updateOut.gotRules =>
          updateOut.rules = IF Submitted = <<>> THEN <<DenyAllRule>> ELSE Submitted

\* C7: Validate of an update request, and of a create request with a name,
\* answers an error exactly when some submitted resourcePattern does not
\* compile, and the error names the first such pattern in rule order and then
\* pattern order; no rules, and rules without patterns, validate; the two
\* request types answer alike for the same rules.
C7_PatternValidation ==
    /\ updateOut.validated => updateOut.err = ExpectedValidation
    /\ (createOut.validated /\ payload.Name # "") => createOut.err = ExpectedValidation
    /\ (createOut.validated /\ updateOut.validated /\ payload.Name # "") =>
          createOut.err = updateOut.err
    /\ (updateOut.validated /\ \A i \in DOMAIN Submitted : Submitted[i].ResourcePatterns = <<>>)
          => updateOut.err = NoError

\* Both requests validated for a named role whose first rule holds a valid
\* pattern and then "(", and whose second rule holds "[": the error names "(".
C7_Witness ==
    /\ createOut.validated /\ updateOut.validated
    /\ payload.Name = "admin"
    /\ Len(Submitted) = 2
    /\ Submitted[1].ResourcePatterns = <<".*", "(">>
    /\ Submitted[2].ResourcePatterns = <<"[">>
    /\ createOut.err = InvalidRegexError("(")

-----------------------------------------------------------------------------
\* Properties of the MFA status query.

\* C8: when the store answers user-not-found, the response is enabled=false
\* and no error; an API error is returned exactly for the other errors of
\* the store, and it is that error.
C8_NotEnrolledIsNotAnError ==
    mfaOut.kind # "none" =>
        /\ mfaErr.class = "UserNotFoundError" =>
              /\ mfaOut.kind = "json"
              /\ mfaOut.Enabled = FALSE
              /\ mfaOut.err = NoErr
        /\ (mfaOut.kind = "error") <=> (mfaErr.class \notin {"nil", "UserNotFoundError"})
        /\ (mfaOut.kind = "error") => mfaOut.err = mfaErr

\* A user who never enrolled was asked about, the store was readable.
C8_Witness ==
    /\ mfaOut.kind = "json"
    /\ mfaQuery \in MFAUsers
    /\ ~mfaStore[mfaQuery].enrolled
    /\ mfaErr.class = "UserNotFoundError"

\* C9: a status response with enabled=false has an empty provisioning URI and
\* verified=false; one with enabled=true has the URI of the stored secret,
\* the queried user name and the issuer kVDI, and the stored verified flag.
C9_URIOnlyWhenEnabled ==
    mfaOut.kind = "json" =>
        /\ ~mfaOut.Enabled => (mfaOut.ProvisioningURI = <<>> /\ ~mfaOut.Verified)
        /\ mfaOut.Enabled =>
              /\ mfaStore[mfaQuery].enrolled
              /\ mfaOut.ProvisioningURI =
                    <<"otpauth://totp/", "kVDI", ":", mfaQuery,
                      "?secret=", mfaStore[mfaQuery].secret, "&issuer=", "kVDI">>
              /\ mfaOut.Verified = mfaStore[mfaQuery].verified

\* An enrolled and verified user was asked about.
C9_Witness ==
    /\ mfaOut.kind = "json"
    /\ mfaOut.Enabled /\ mfaOut.Verified
    /\ mfaOut.ProvisioningURI # <<>>

====
